---- MODULE Spec2Model ----
(***************************************************************************)
(* HoverReveal: the [visibleText]{tooltipText} annotation renderer.        *)
(*                                                                         *)
(* These parts of src/main.ts are modelled, each as its own specification   *)
(* over the same variables:                                                *)
(*   SpecMatcher  the regex.exec loop both builders run over a string      *)
(*   SpecStatic   the markdown post-processor (static fragment builder)    *)
(*   SpecLive     the CodeMirror view plugin (live decoration builder)     *)
(*   SpecTooltip  the mouseover/mouseout handlers of one annotation        *)
(*   SpecEq       TooltipWidget.eq on two widget instances                 *)
(*   SpecRescan   several scans of one string, by either builder           *)
(*   SpecStyles   updateStyles and onunload on the injected style element  *)
(* A text is a sequence of one-character strings; offsets are 0-based as   *)
(* in JavaScript, so the character at offset i is text[i + 1].             *)
(***************************************************************************)
EXTENDS Integers, Sequences, FiniteSets, TLC

VARIABLES
    content,        \* matcher: the string handed to regex.exec
    reLastIndex,    \* matcher: regex.lastIndex of the /g regex
    results,        \* matcher: the non-null exec results so far, in order
    scanning,       \* matcher: TRUE until exec has returned null
    dom,            \* static: per collected position, the parent flag and the child nodes there
    nodesToProcess, \* static: the snapshot of text nodes taken by the tree walker
    idx,            \* static: number of forEach callbacks already run
    phase,          \* static: "walk", "forEach", "done" or "threw"
    doc,            \* live: view.state.doc
    cursor,         \* live: view.state.selection.main.from
    decorations,    \* live: the plugin's stored decoration set
    nEdits,         \* live: number of document changes so far
    trip,           \* live: history of a cursor leaving a match and coming back
    surface,        \* tooltip: who built the annotation: "static", "live" or "liveActive"
    pointer,        \* tooltip: where the pointer is: "outside", "trigger" or "tooltip"
    pendingOver,    \* tooltip: TRUE between the mouseout and the mouseover of one pointer move
    tooltipStyle,   \* tooltip: tooltip.style (left, right, transform, visibility, opacity)
    timers,         \* tooltip: number of setTimeout callbacks not yet run
    tooltipListeners, \* tooltip: mouseout listeners added to the tooltip element so far
    page,           \* tooltip: what the measurements of this annotation depend on
    widgetA,        \* eq: the widget a of a.eq(b), b.eq(a), a.eq(a)
    widgetB,        \* eq: the widget b
    eqResult,       \* eq: the eq calls made so far, each with its result
    pass,           \* rescan: number of finished scans of content
    firstResults,   \* rescan: the match list of the first finished scan
    builder,        \* rescan: whose regex literal the current scan uses: "static" or "live"
    head,           \* styles: the style elements of document.head, in document order
    settings,       \* styles: this.settings
    lastCall        \* styles: the call made last: "none", "set", "updateStyles" or "onunload"

vars == <<content, reLastIndex, results, scanning,
          dom, nodesToProcess, idx, phase,
          doc, cursor, decorations, nEdits, trip,
          surface, pointer, pendingOver, tooltipStyle, timers,
          tooltipListeners, page,
          widgetA, widgetB, eqResult,
          pass, firstResults, builder,
          head, settings, lastCall>>

matcherVars == <<content, reLastIndex, results, scanning>>
staticVars  == <<dom, nodesToProcess, idx, phase>>
liveVars    == <<doc, cursor, decorations, nEdits, trip>>
tooltipVars == <<surface, pointer, pendingOver, tooltipStyle, timers,
                 tooltipListeners, page>>
eqVars == <<widgetA, widgetB, eqResult>>
rescanVars == <<pass, firstResults, builder>>
stylesVars == <<head, settings, lastCall>>

----------------------------------------------------------------------------
(* Bounds of the model and the input domain.                               *)

MaxSegs == 4

Segs ==
    { <<"[">>, <<"]">>, <<"{">>, <<"}">>, <<"a">>, <<"\n">>,
      <<"]", "{">>,
      <<"[", "a", "]", "{">>,
      <<"[", "a", "]", "{", "b", "}">>,
      <<"[", "]", "{", "}">>,
      <<"[", "a", "]", "(", "b", ")">> }

RECURSIVE Flatten(_)
Flatten(ss) == IF ss = <<>> THEN <<>> ELSE Head(ss) \o Flatten(Tail(ss))

SeqsUpTo(S, n) == UNION { [1..k -> S] : k \in 0..n }

Texts == { Flatten(ss) : ss \in SeqsUpTo(Segs, MaxSegs) }

----------------------------------------------------------------------------
(* The regular expression /\[([^\[\]{}]*?)\]\{([^{}]*?)\}/g                *)

CharAt(text, i) == text[i + 1]

VisibleClassAlt(c) == c \notin {"\n"}
VisibleClass(c) == c \notin {"[", "]", "{", "}"}

TooltipClassAlt(c) == c \notin {"[", "]", "{", "}"}
TooltipClass(c) == c \notin {"{", "}"}

\* ([^{}]*?)\} from offset q having consumed j characters: the lazy star
\* first tries the continuation "}", and only then one more class character.
\* The result is the number of characters captured, or -1 on failure.
RECURSIVE LazyTooltip(_, _, _)
LazyTooltip(text, q, j) ==
    IF q + j >= Len(text) THEN -1
    ELSE IF CharAt(text, q + j) = "}" THEN j
    ELSE IF TooltipClass(CharAt(text, q + j)) THEN LazyTooltip(text, q, j + 1)
    ELSE -1

\* \]\{([^{}]*?)\} at offset r: the tooltip length, or -1.
Continuation(text, r) ==
    IF r + 1 < Len(text) /\ CharAt(text, r) = "]" /\ CharAt(text, r + 1) = "{"
    THEN LazyTooltip(text, r + 2, 0)
    ELSE -1

\* ([^\[\]{}]*?) followed by the continuation, from offset p having consumed
\* k characters: <<k, j>> (visible and tooltip lengths) or <<-1, -1>>.
RECURSIVE LazyVisible(_, _, _)
LazyVisible(text, p, k) ==
    IF Continuation(text, p + k) >= 0 THEN <<k, Continuation(text, p + k)>>
    ELSE IF p + k < Len(text) /\ VisibleClass(CharAt(text, p + k))
    THEN LazyVisible(text, p, k + 1)
    ELSE <<-1, -1>>

Null == [index |-> -1, fullMatch |-> <<>>, visibleText |-> <<>>, tooltipText |-> <<>>]

Slice(text, from, to) == SubSeq(text, from + 1, to)

\* A variant whose second capture starts one character early.
MatchAtShifted(text, i) ==
    IF i < Len(text) /\ CharAt(text, i) = "["
    THEN LET kj == LazyVisible(text, i + 1, 0)
             k  == kj[1]
             j  == kj[2]
         IN IF k < 0 THEN Null
            ELSE [index       |-> i,
                  fullMatch   |-> Slice(text, i, i + k + j + 4),
                  visibleText |-> Slice(text, i + 1, i + 1 + k),
                  tooltipText |-> Slice(text, i + k + 2, i + k + 3 + j)]
    ELSE Null

\* One attempt of the whole pattern anchored at offset i.
MatchAt(text, i) ==
    IF i < Len(text) /\ CharAt(text, i) = "["
    THEN LET kj == LazyVisible(text, i + 1, 0)
             k  == kj[1]
             j  == kj[2]
         IN IF k < 0 THEN Null
            ELSE [index       |-> i,
                  fullMatch   |-> Slice(text, i, i + k + j + 4),
                  visibleText |-> Slice(text, i + 1, i + 1 + k),
                  tooltipText |-> Slice(text, i + k + 3, i + k + 3 + j)]
    ELSE Null

\* A variant that does not move on from a failed start offset (the y flag).
RegexExecSticky(text, lastIndex) ==
    IF lastIndex > Len(text) THEN Null ELSE MatchAt(text, lastIndex)

\* regex.exec(text) with regex.lastIndex = lastIndex: the leftmost match
\* starting at or after lastIndex, or null.
RECURSIVE RegexExec(_, _)
RegexExec(text, lastIndex) ==
    IF lastIndex > Len(text) THEN Null
    ELSE IF MatchAt(text, lastIndex) # Null THEN MatchAt(text, lastIndex)
    ELSE RegexExec(text, lastIndex + 1)

\* regex.lastIndex after exec returned m: the end of the match for a
\* /g regex, 0 after a failed exec.
LastIndexNoGlobalFlag(m) == 0
LastIndexSkipsOne(m) == IF m = Null THEN 0 ELSE m.index + Len(m.fullMatch) + 1
LastIndexAfter(m) == IF m = Null THEN 0 ELSE m.index + Len(m.fullMatch)

----------------------------------------------------------------------------
(* SpecMatcher: while ((match = regex.exec(text)) !== null) { ... }        *)

NoUpdate == [docChanged |-> FALSE, viewportChanged |-> FALSE, selectionSet |-> FALSE]

NoTrip == [stage |-> "none", start |-> -1, text |-> <<>>]

MatcherIdle ==
    /\ content = <<>>
    /\ reLastIndex = 0
    /\ results = <<>>
    /\ scanning = FALSE

StaticIdle ==
    /\ dom = <<>>
    /\ nodesToProcess = <<>>
    /\ idx = 0
    /\ phase = "done"

LiveIdle ==
    /\ doc = <<>>
    /\ cursor = 0
    /\ decorations = <<>>
    /\ nEdits = 0
    /\ trip = NoTrip

\* tooltip.style of a freshly created tooltip element: nothing set inline.
NoInlineStyle ==
    [left |-> "", right |-> "", transform |-> "", visibility |-> "", opacity |-> ""]

NoPage ==
    [center |-> 0, width |-> 0, laidOut |-> FALSE, hasContainer |-> FALSE,
     mainContentLeft |-> 0, mainContentRight |-> 0]

TooltipIdle ==
    /\ surface = "static"
    /\ pointer = "outside"
    /\ pendingOver = FALSE
    /\ tooltipStyle = NoInlineStyle
    /\ timers = 0
    /\ tooltipListeners = 0
    /\ page = NoPage

\* A TooltipWidget instance with every constructor field, the view included.
WidgetInstance(visibleText, tooltipText, from, to, view, isActive) ==
    [visibleText |-> visibleText, tooltipText |-> tooltipText,
     from |-> from, to |-> to, view |-> view, isActive |-> isActive]

NoWidget == WidgetInstance(<<>>, <<>>, 0, 0, "none", FALSE)

EqIdle ==
    /\ widgetA = NoWidget
    /\ widgetB = NoWidget
    /\ eqResult = {}

RescanIdle ==
    /\ pass = 0
    /\ firstResults = <<>>
    /\ builder = "live"

DEFAULT_SETTINGS ==
    [tooltipTextColor       |-> "var(--text-normal)",
     tooltipBackgroundColor |-> "var(--background-primary)",
     tooltipBorderColor     |-> "var(--background-modifier-border)",
     boldTextColor          |-> "var(--bold-color)"]

StylesIdle ==
    /\ head = <<>>
    /\ settings = DEFAULT_SETTINGS
    /\ lastCall = "none"

InitMatcher ==
    /\ content \in Texts
    /\ reLastIndex = 0
    /\ results = <<>>
    /\ scanning = TRUE
    /\ StaticIdle
    /\ LiveIdle
    /\ TooltipIdle
    /\ EqIdle
    /\ RescanIdle
    /\ StylesIdle

\* An exec call that returns a match: one iteration of the while loop.
ExecMatch ==
    /\ scanning
    /\ RegexExec(content, reLastIndex) # Null
    /\ results' = Append(results, RegexExec(content, reLastIndex))
    /\ reLastIndex' = LastIndexAfter(RegexExec(content, reLastIndex))
    /\ UNCHANGED <<content, scanning>>
    /\ UNCHANGED <<staticVars, liveVars, tooltipVars, eqVars, rescanVars, stylesVars>>

\* The exec call that returns null and ends the loop.
ExecNull ==
    /\ scanning
    /\ RegexExec(content, reLastIndex) = Null
    /\ reLastIndex' = LastIndexAfter(Null)
    /\ scanning' = FALSE
    /\ UNCHANGED <<content, results>>
    /\ UNCHANGED <<staticVars, liveVars, tooltipVars, eqVars, rescanVars, stylesVars>>

NextMatcher == ExecMatch \/ ExecNull

SpecMatcher == InitMatcher /\ [][NextMatcher]_vars

\* The list of matches one full scan produces: the successive non-null
\* results of regex.exec on a fresh regex (lastIndex 0).
RECURSIVE ExecAll(_, _)
ExecAll(text, lastIndex) ==
    LET m == RegexExec(text, lastIndex)
    IN IF m = Null THEN <<>> ELSE <<m>> \o ExecAll(text, LastIndexAfter(m))

Matcher(text) == ExecAll(text, 0)

MatchStart(m) == m.index
MatchEnd(m) == m.index + Len(m.fullMatch)

----------------------------------------------------------------------------
(* C1: the matches the scan returns are in strictly increasing start       *)
(* offset order and do not overlap: each match ends at or before the       *)
(* start of the next one.                                                  *)
MatchesSortedNonOverlapping ==
    /\ \A i \in 1..Len(results) : \A j \in 1..Len(results) :
           i < j => MatchStart(results[i]) < MatchStart(results[j])
    /\ \A i \in 1..(Len(results) - 1) :
           MatchEnd(results[i]) <= MatchStart(results[i + 1])

\* A finished scan that returned two matches with text between them.
WitnessTwoMatches ==
    /\ ~scanning
    /\ content # <<>>
    /\ Len(results) >= 2
    /\ MatchEnd(results[1]) < MatchStart(results[2])

(* The annotation grammar, stated on offsets: text[s, e) is                *)
(* '[' V ']' '{' T '}' with V free of [ ] { } and T free of { }.           *)
IsAnnotation(text, s, e) ==
    /\ 0 <= s /\ s + 4 <= e /\ e <= Len(text)
    /\ CharAt(text, s) = "["
    /\ CharAt(text, e - 1) = "}"
    /\ \E r \in (s + 1)..(e - 3) :
          /\ CharAt(text, r) = "]"
          /\ CharAt(text, r + 1) = "{"
          /\ \A i \in (s + 1)..(r - 1) :
                CharAt(text, i) \notin {"[", "]", "{", "}"}
          /\ \A i \in (r + 2)..(e - 2) :
                CharAt(text, i) \notin {"{", "}"}

Returned(s, e) ==
    \E i \in 1..Len(results) :
        MatchStart(results[i]) = s /\ MatchEnd(results[i]) = e

OverlapsEarlierReturned(s, e) ==
    \E i \in 1..Len(results) :
        /\ MatchStart(results[i]) < s
        /\ MatchEnd(results[i]) > s

(* C4: when the scan has finished, every returned match is an occurrence   *)
(* of the grammar, and every occurrence of the grammar that does not       *)
(* overlap a returned match starting earlier is returned, so no            *)
(* occurrence is left as ordinary text.                                    *)
MatcherMaximal ==
    ~scanning =>
        /\ \A i \in 1..Len(results) :
               IsAnnotation(content, MatchStart(results[i]), MatchEnd(results[i]))
        /\ \A s \in 0..Len(content) : \A e \in 0..Len(content) :
               (IsAnnotation(content, s, e) /\ ~OverlapsEarlierReturned(s, e))
                   => Returned(s, e)

\* A finished scan whose first match starts after a '[' that opened a
\* malformed candidate, and whose tooltip holds a bracket.
WitnessMaximal ==
    /\ ~scanning
    /\ Len(results) >= 1
    /\ MatchStart(results[1]) > 0
    /\ \E i \in 0..(MatchStart(results[1]) - 1) : CharAt(content, i) = "["
    /\ \E k \in 1..Len(results) :
          \E i \in 1..Len(results[k].tooltipText) :
              results[k].tooltipText[i] \in {"[", "]"}

(* C5: in every returned match the visible text holds none of [ ] { }      *)
(* and the tooltip text holds neither { nor }.                             *)
CapturesExcludeDelimiters ==
    \A k \in 1..Len(results) :
        /\ \A i \in 1..Len(results[k].visibleText) :
               results[k].visibleText[i] \notin {"[", "]", "{", "}"}
        /\ \A i \in 1..Len(results[k].tooltipText) :
               results[k].tooltipText[i] \notin {"{", "}"}

\* A scan that returned a match with a bracket in its tooltip and a match
\* with both parts empty.
WitnessCaptures ==
    /\ \E k \in 1..Len(results) :
          \E i \in 1..Len(results[k].tooltipText) :
              results[k].tooltipText[i] \in {"[", "]"}
    /\ \E k \in 1..Len(results) :
          results[k].visibleText = <<>> /\ results[k].tooltipText = <<>>

\* The split of text[s, e) into '[' V ']{' T '}': the offset of ']'.
IsSplit(text, s, e, r) ==
    /\ s + 1 <= r /\ r <= e - 3
    /\ CharAt(text, r) = "]"
    /\ CharAt(text, r + 1) = "{"
    /\ \A i \in (s + 1)..(r - 1) : CharAt(text, i) \notin {"[", "]", "{", "}"}
    /\ \A i \in (r + 2)..(e - 2) : CharAt(text, i) \notin {"{", "}"}

(* C11: when the whole string is '[' V ']{' T '}' (V without [ ] { }, T    *)
(* without { }), the finished scan holds exactly one match: it starts at   *)
(* 0, ends at the length of the string, and its captures are V and T.      *)
WholeStringAnnotationMatches ==
    (~scanning /\ IsAnnotation(content, 0, Len(content))) =>
        /\ Len(results) = 1
        /\ MatchStart(results[1]) = 0
        /\ MatchEnd(results[1]) = Len(content)
        /\ \A r \in 1..Len(content) :
               IsSplit(content, 0, Len(content), r) =>
                   /\ results[1].visibleText = Slice(content, 1, r)
                   /\ results[1].tooltipText = Slice(content, r + 2, Len(content) - 1)

\* A finished scan of a string '[' ']{' T '}' with a bracket in T.
WitnessWholeString ==
    /\ ~scanning
    /\ IsAnnotation(content, 0, Len(content))
    /\ Len(results) = 1
    /\ results[1].visibleText = <<>>
    /\ \E i \in 1..Len(results[1].tooltipText) :
          results[1].tooltipText[i] \in {"[", "]"}

(* C12: when the string is two annotations back to back, the finished      *)
(* scan holds exactly two matches, the first covering the first            *)
(* annotation and the second starting exactly where the first ends.        *)
AdjacentAnnotationsBothMatch ==
    \A mid \in 0..Len(content) :
        (/\ ~scanning
         /\ IsAnnotation(content, 0, mid)
         /\ IsAnnotation(content, mid, Len(content))) =>
            /\ Len(results) = 2
            /\ MatchStart(results[1]) = 0
            /\ MatchEnd(results[1]) = mid
            /\ MatchStart(results[2]) = MatchEnd(results[1])
            /\ MatchEnd(results[2]) = Len(content)
            /\ \A r \in 1..Len(content) :
                   IsSplit(content, 0, mid, r) =>
                       /\ results[1].visibleText = Slice(content, 1, r)
                       /\ results[1].tooltipText = Slice(content, r + 2, mid - 1)
            /\ \A r \in 1..Len(content) :
                   IsSplit(content, mid, Len(content), r) =>
                       /\ results[2].visibleText = Slice(content, mid + 1, r)
                       /\ results[2].tooltipText = Slice(content, r + 2, Len(content) - 1)

\* A finished scan of two adjacent annotations, the first with text in it.
WitnessAdjacent ==
    /\ ~scanning
    /\ Len(results) = 2
    /\ \E mid \in 0..Len(content) :
          /\ IsAnnotation(content, 0, mid)
          /\ IsAnnotation(content, mid, Len(content))
    /\ results[1].visibleText # <<>>

\* A '[' at offset p that opens no occurrence of the grammar.
MalformedAt(text, p) ==
    /\ p < Len(text)
    /\ CharAt(text, p) = "["
    /\ \A e \in 0..Len(text) : ~IsAnnotation(text, p, e)

(* C13: a '[' that opens no well-formed annotation ("[a]" alone, "[a](b)", *)
(* an unbalanced bracket or brace) gives no match, the scan still ends,    *)
(* and every well-formed annotation after it is matched.                   *)
MalformedSkippedScanContinues ==
    ~scanning =>
        \A p \in 0..Len(content) :
            MalformedAt(content, p) =>
                /\ \A k \in 1..Len(results) : MatchStart(results[k]) # p
                /\ \A s \in (p + 1)..Len(content) : \A e \in 0..Len(content) :
                       IsAnnotation(content, s, e) => Returned(s, e)

\* A finished scan of "[a](b)" followed by an annotation that was matched.
WitnessMalformedThenMatch ==
    /\ ~scanning
    /\ Len(content) >= 6
    /\ Slice(content, 0, 6) = <<"[", "a", "]", "(", "b", ")">>
    /\ MalformedAt(content, 0)
    /\ Len(results) >= 1

----------------------------------------------------------------------------
(* SpecStatic: the markdown post-processor of onload.                      *)
(*                                                                         *)
(* dom[i] is the place of the i-th text node of the rendered element:      *)
(* hasParent is textNode.parentNode !== null, children the nodes that      *)
(* stand there. A node is a record; created tells a node made by the       *)
(* callback from the text node the renderer put there.                     *)

MaxNodes == 2
MaxTreeSegs == 3

StaticSegs ==
    { <<"a">>, <<"}">>,
      <<"[", "a", "]", "{">>,
      <<"[", "a", "]", "{", "b", "}">>,
      <<"[", "]", "{", "}">>,
      <<"a", "[", "a", "]", "{", "b", "}", "a">> }

TextNode(t, isNew) ==
    [kind |-> "text", text |-> t, visible |-> <<>>, tooltip |-> <<>>, created |-> isNew]

\* span.hover-reveal-container > span.hover-reveal (textContent visibleText)
\* > div.hover-reveal-tooltip (tooltipText handed to MarkdownRenderer.render)
Container(visibleText, tooltipText) ==
    [kind |-> "container", text |-> <<>>, visible |-> visibleText,
     tooltip |-> tooltipText, created |-> TRUE]

\* The callback's own regex literal /\[([^\[\]{}]*?)\]\{([^{}]*?)\}/g, written
\* out separately from the one of buildDecorations.
StaticVisibleClassAny(c) == c \notin {"\n"}
StaticVisibleClass(c) == c \notin {"[", "]", "{", "}"}

StaticTooltipClass(c) == c \notin {"{", "}"}

RECURSIVE StaticLazyTooltip(_, _, _)
StaticLazyTooltip(text, q, j) ==
    IF q + j >= Len(text) THEN -1
    ELSE IF CharAt(text, q + j) = "}" THEN j
    ELSE IF StaticTooltipClass(CharAt(text, q + j))
    THEN StaticLazyTooltip(text, q, j + 1)
    ELSE -1

StaticContinuation(text, r) ==
    IF r + 1 < Len(text) /\ CharAt(text, r) = "]" /\ CharAt(text, r + 1) = "{"
    THEN StaticLazyTooltip(text, r + 2, 0)
    ELSE -1

RECURSIVE StaticLazyVisible(_, _, _)
StaticLazyVisible(text, p, k) ==
    IF StaticContinuation(text, p + k) >= 0
    THEN <<k, StaticContinuation(text, p + k)>>
    ELSE IF p + k < Len(text) /\ StaticVisibleClass(CharAt(text, p + k))
    THEN StaticLazyVisible(text, p, k + 1)
    ELSE <<-1, -1>>

StaticMatchAt(text, i) ==
    IF i < Len(text) /\ CharAt(text, i) = "["
    THEN LET kj == StaticLazyVisible(text, i + 1, 0)
             k  == kj[1]
             j  == kj[2]
         IN IF k < 0 THEN Null
            ELSE [index       |-> i,
                  fullMatch   |-> Slice(text, i, i + k + j + 4),
                  visibleText |-> Slice(text, i + 1, i + 1 + k),
                  tooltipText |-> Slice(text, i + k + 3, i + k + 3 + j)]
    ELSE Null

\* regex.exec(text) of the callback's regex with regex.lastIndex = lastIndex.
RECURSIVE StaticRegexExec(_, _)
StaticRegexExec(text, lastIndex) ==
    IF lastIndex > Len(text) THEN Null
    ELSE IF StaticMatchAt(text, lastIndex) # Null THEN StaticMatchAt(text, lastIndex)
    ELSE StaticRegexExec(text, lastIndex + 1)

\* What the callback's loop reads off each match: the two captures,
\* match.index, and its own lastIndex = match.index + fullMatch.length.
RECURSIVE StaticScan(_, _)
StaticScan(text, reLast) ==
    LET m == StaticRegexExec(text, reLast)
    IN IF m = Null THEN <<>>
       ELSE <<[visibleText |-> m.visibleText,
               tooltipText |-> m.tooltipText,
               startOffset |-> m.index,
               endOffset   |-> m.index + Len(m.fullMatch)]>>
            \o StaticScan(text, LastIndexAfter(m))

\* The text before a match, pushed only when it is not empty.
LeadingText(text, lastIndex, m) ==
    IF m.index > lastIndex
    THEN <<TextNode(Slice(text, lastIndex, m.index), TRUE)>>
    ELSE <<>>

\* The text after the last match, pushed only when it is not empty.
TrailingTextDropped(text, lastIndex) == <<>>
TrailingTextWhole(text, lastIndex) ==
    IF lastIndex < Len(text) THEN <<TextNode(text, TRUE)>> ELSE <<>>
TrailingText(text, lastIndex) ==
    IF lastIndex < Len(text)
    THEN <<TextNode(Slice(text, lastIndex, Len(text)), TRUE)>>
    ELSE <<>>

\* The while loop of the callback and the tail after it: reLast is
\* regex.lastIndex, lastIndex the callback's own variable.
RECURSIVE BuildFragments(_, _, _, _)
BuildFragments(text, reLast, lastIndex, fragments) ==
    LET m == StaticRegexExec(text, reLast)
    IN IF m = Null
       THEN fragments \o TrailingText(text, lastIndex)
       ELSE BuildFragments(text, LastIndexAfter(m), m.index + Len(m.fullMatch),
                           fragments \o LeadingText(text, lastIndex, m)
                                     \o <<Container(m.visibleText, m.tooltipText)>>)

ShouldReplaceNoParentCheck(fragments, hasParent) == Len(fragments) > 0
ShouldReplace(fragments, hasParent) == Len(fragments) > 0 /\ hasParent

\* textNode.parentNode.replaceChild(fragment, textNode): the fragments take
\* the node's place; on a null parentNode the call is a TypeError.
ReplaceChild(slot, fragments) ==
    IF slot.hasParent
    THEN [threw |-> FALSE, slot |-> [slot EXCEPT !.children = fragments]]
    ELSE [threw |-> TRUE, slot |-> slot]

\* The forEach callback on one snapshotted text node: what stands at the
\* node's place afterwards, and whether the callback threw.
Callback(textNode, slot) ==
    LET text == textNode.textContent
        fragments == BuildFragments(text, 0, 0, <<>>)
    IN IF text = <<>> THEN [threw |-> FALSE, slot |-> slot]
       ELSE IF ShouldReplace(fragments, slot.hasParent)
       THEN ReplaceChild(slot, fragments)
       ELSE [threw |-> FALSE, slot |-> slot]

\* The rendered elements handed to the post-processor: up to MaxNodes text
\* nodes holding up to MaxTreeSegs segments between them.
NodeTexts(ss, cuts, n) ==
    [i \in 1..n |->
        Flatten(SubSeq(ss, (IF i = 1 THEN 0 ELSE cuts[i - 1]) + 1,
                           IF i = n THEN Len(ss) ELSE cuts[i]))]

InitStatic ==
    /\ \E n \in 1..MaxNodes : \E ss \in SeqsUpTo(StaticSegs, MaxTreeSegs) :
       \E cuts \in [1..(n - 1) -> 0..Len(ss)] : \E par \in [1..n -> BOOLEAN] :
          /\ \A i \in 1..(n - 2) : cuts[i] <= cuts[i + 1]
          /\ dom = [i \in 1..n |->
                       [hasParent |-> par[i],
                        children  |-> <<TextNode(NodeTexts(ss, cuts, n)[i], FALSE)>>]]
    /\ nodesToProcess = <<>>
    /\ idx = 0
    /\ phase = "walk"
    /\ MatcherIdle
    /\ LiveIdle
    /\ TooltipIdle
    /\ EqIdle
    /\ RescanIdle
    /\ StylesIdle

\* The tree walker loop: every text node of the element, in document
\* order. The array holds the Text nodes themselves, so a node's
\* textContent stays readable after the node has been replaced.
WalkTree ==
    /\ phase = "walk"
    /\ nodesToProcess' =
           [i \in 1..Len(dom) |-> [slot |-> i, textContent |-> dom[i].children[1].text]]
    /\ phase' = "forEach"
    /\ UNCHANGED <<dom, idx>>
    /\ UNCHANGED <<matcherVars, liveVars, tooltipVars, eqVars, rescanVars, stylesVars>>

\* One callback of nodesToProcess.forEach; an exception leaves forEach.
ForEachCallback ==
    /\ phase = "forEach"
    /\ idx < Len(nodesToProcess)
    /\ LET textNode == nodesToProcess[idx + 1]
           r == Callback(textNode, dom[textNode.slot])
       IN /\ dom' = [dom EXCEPT ![textNode.slot] = r.slot]
          /\ phase' = IF r.threw THEN "threw" ELSE phase
    /\ idx' = idx + 1
    /\ UNCHANGED nodesToProcess
    /\ UNCHANGED <<matcherVars, liveVars, tooltipVars, eqVars, rescanVars, stylesVars>>

\* forEach returns and the post-processor with it.
ForEachEnd ==
    /\ phase = "forEach"
    /\ idx = Len(nodesToProcess)
    /\ phase' = "done"
    /\ UNCHANGED <<dom, nodesToProcess, idx>>
    /\ UNCHANGED <<matcherVars, liveVars, tooltipVars, eqVars, rescanVars, stylesVars>>

NextStatic == WalkTree \/ ForEachCallback \/ ForEachEnd

SpecStatic == InitStatic /\ [][NextStatic]_vars

----------------------------------------------------------------------------
(* Claims about the static fragment builder.                               *)

\* What buildDecorations reads off each match: the two captures,
\* from = match.index and to = from + match[0].length.
LiveScan(ms) ==
    [k \in 1..Len(ms) |->
        [visibleText |-> ms[k].visibleText,
         tooltipText |-> ms[k].tooltipText,
         startOffset |-> ms[k].index,
         endOffset   |-> ms[k].index + Len(ms[k].fullMatch)]]

(* C14: on the same string the scan of the static builder and the scan of  *)
(* the live builder give the same sequence of (visibleText, tooltipText,   *)
(* startOffset, endOffset).                                                *)
BuildersRecogniseSameAnnotations ==
    ~scanning => LiveScan(results) = StaticScan(content, 0)

\* A finished scan with a malformed candidate and an annotation, seen by
\* both builders.
WitnessBothBuilders ==
    /\ ~scanning
    /\ \E p \in 0..Len(content) : MalformedAt(content, p)
    /\ Len(results) >= 1
    /\ Len(StaticScan(content, 0)) >= 1

\* The source text a node stands for: a text node its text, a widget the
\* annotation '[' visible ']{' tooltip '}'.
FragmentSource(f) ==
    IF f.kind = "text" THEN f.text
    ELSE <<"[">> \o f.visible \o <<"]", "{">> \o f.tooltip \o <<"}">>

RECURSIVE ConcatSources(_)
ConcatSources(fs) ==
    IF fs = <<>> THEN <<>> ELSE FragmentSource(Head(fs)) \o ConcatSources(Tail(fs))

Widgets(fs) == SelectSeq(fs, LAMBDA f : f.kind = "container")

Processed == 1..idx

SlotOf(j) == dom[nodesToProcess[j].slot]
TextOf(j) == nodesToProcess[j].textContent

(* C8: after a text node's callback the nodes standing at its place, read  *)
(* left to right, concatenate to exactly the node's text, and the widgets  *)
(* among them are the Matcher's matches in the same order.                 *)
StaticNoDataLoss ==
    \A j \in Processed :
        /\ ConcatSources(SlotOf(j).children) = TextOf(j)
        /\ (SlotOf(j).hasParent /\ TextOf(j) # <<>>) =>
              /\ Len(Widgets(SlotOf(j).children)) = Len(Matcher(TextOf(j)))
              /\ \A k \in 1..Len(Matcher(TextOf(j))) :
                    /\ Widgets(SlotOf(j).children)[k].visible
                           = Matcher(TextOf(j))[k].visibleText
                    /\ Widgets(SlotOf(j).children)[k].tooltip
                           = Matcher(TextOf(j))[k].tooltipText

\* A processed node replaced by text, widget, text, as for
\* "See [here]{click for details} now.".
WitnessTextWidgetText ==
    \E j \in Processed :
        /\ Len(SlotOf(j).children) = 3
        /\ SlotOf(j).children[1].kind = "text" /\ SlotOf(j).children[1].created
        /\ SlotOf(j).children[2].kind = "container"
        /\ SlotOf(j).children[3].kind = "text" /\ SlotOf(j).children[3].created

(* C9: a processed text node whose text holds no match yields no widget    *)
(* and is left untouched: the original text node still stands in its       *)
(* parent.                                                                 *)
NoMatchNodeUntouched ==
    \A j \in Processed :
        Matcher(TextOf(j)) = <<>> =>
            SlotOf(j).children = <<TextNode(TextOf(j), FALSE)>>

(* C10: a collected text node without a parent is left as it was by its    *)
(* callback, no callback throws, and every collected node is processed:    *)
(* when the pass is over each node with a parent and matches has been      *)
(* replaced by fragments holding one widget per match.                     *)
ParentlessNodeSkipped ==
    /\ phase # "threw"
    /\ \A j \in Processed :
           ~SlotOf(j).hasParent =>
               SlotOf(j).children = <<TextNode(TextOf(j), FALSE)>>
    /\ phase = "done" =>
           /\ idx = Len(nodesToProcess)
           /\ \A j \in 1..Len(nodesToProcess) :
                  (SlotOf(j).hasParent /\ Matcher(TextOf(j)) # <<>>) =>
                      /\ \A i \in 1..Len(SlotOf(j).children) :
                             SlotOf(j).children[i].created
                      /\ Len(Widgets(SlotOf(j).children)) = Len(Matcher(TextOf(j)))

\* A finished pass whose first node has no parent and holds a match, and
\* whose second node was replaced by fragments with a widget.
WitnessParentless ==
    /\ phase = "done"
    /\ Len(nodesToProcess) = 2
    /\ ~SlotOf(1).hasParent
    /\ Matcher(TextOf(1)) # <<>>
    /\ SlotOf(2).hasParent
    /\ Widgets(SlotOf(2).children) # <<>>


\* The texts of the text nodes a tree walker finds in a node: the node's
\* own text, or for a widget the text of span.hover-reveal and the text
\* handed to the tooltip.
TextNodesOf(f) ==
    IF f.kind = "text" THEN <<f.text>> ELSE <<f.visible, f.tooltip>>

\* The widgets the forEach callback makes of a text node with the given
\* text, with or without parent node.
WidgetsMadeOf(text, hasParent) ==
    Widgets(Callback([textContent |-> text],
                     [hasParent |-> hasParent, children |-> <<>>]).slot.children)

(* C29: the text nodes are collected before any node is replaced and the   *)
(* callbacks run on the collected ones only, one per original node; and on *)
(* the finished tree no text node (plain-text fragment, visible text or    *)
(* tooltip text of a widget, node left in place) makes the callback build  *)
(* a widget again.                                                         *)
StaticPassStable ==
    /\ phase = "walk" =>
           \A i \in 1..Len(dom) : \A c \in 1..Len(dom[i].children) :
               ~dom[i].children[c].created
    /\ phase # "walk" =>
           /\ Len(nodesToProcess) = Len(dom)
           /\ \A j \in 1..Len(nodesToProcess) : nodesToProcess[j].slot = j
           /\ idx <= Len(nodesToProcess)
    /\ phase = "done" =>
           \A i \in 1..Len(dom) : \A c \in 1..Len(dom[i].children) :
               LET f == dom[i].children[c]
               IN \A t \in 1..Len(TextNodesOf(f)) :
                      WidgetsMadeOf(TextNodesOf(f)[t],
                                    f.kind = "container" \/ dom[i].hasParent) = <<>>

\* A finished pass that left a plain-text fragment with a '[' in it next to
\* a widget.
WitnessStablePass ==
    /\ phase = "done"
    /\ \E i \in 1..Len(dom) :
          /\ Widgets(dom[i].children) # <<>>
          /\ \E c \in 1..Len(dom[i].children) :
                /\ dom[i].children[c].kind = "text"
                /\ dom[i].children[c].created
                /\ \E p \in 1..Len(dom[i].children[c].text) :
                      dom[i].children[c].text[p] = "["

----------------------------------------------------------------------------
(* SpecLive: the view plugin of hoverRevealExtension.                      *)

MaxEdits == 1

\* What one edit can insert at the cursor.
LiveSegs ==
    { <<"\n">>, <<"}">>,
      <<"[", "a", "]", "{", "b", "}">>,
      <<"[", "]", "{", "}">> }

\* `[${this.visibleText}]{${this.tooltipText}}` of TooltipWidget.toDOM.
SourceFormNoBraces(visibleText, tooltipText) ==
    <<"[">> \o visibleText \o <<"]">> \o tooltipText
SourceForm(visibleText, tooltipText) ==
    <<"[">> \o visibleText \o <<"]", "{">> \o tooltipText \o <<"}">>

IsCursorInsideExclusive(c, from, to) == c > from /\ c < to
IsCursorInsideHalfOpen(c, from, to) == c >= from /\ c < to
IsCursorInside(c, from, to) == c >= from /\ c <= to

TooltipWidgetFlagFlipped(visibleText, tooltipText, from, to, isActive) ==
    [visibleText |-> visibleText, tooltipText |-> tooltipText,
     from |-> from, to |-> to, isActive |-> ~isActive]

TooltipWidget(visibleText, tooltipText, from, to, isActive) ==
    [visibleText |-> visibleText, tooltipText |-> tooltipText,
     from |-> from, to |-> to, isActive |-> isActive]

\* Decoration.replace({widget, inclusive: true}).range(from, to)
ReplaceRange(widget, from, to) == [from |-> from, to |-> to, widget |-> widget]

PushFront(widgets, range) == <<range>> \o widgets
Push(widgets, range) == Append(widgets, range)

\* The while loop of buildDecorations; Decoration.set(widgets) keeps the
\* ranges in the order given.
RECURSIVE BuildWidgets(_, _, _, _)
BuildWidgets(text, c, reLast, widgets) ==
    LET m    == RegexExec(text, reLast)
        from == m.index
        to   == m.index + Len(m.fullMatch)
    IN IF m = Null THEN widgets
       ELSE BuildWidgets(text, c, LastIndexAfter(m),
                IF IsCursorInside(c, from, to) THEN widgets
                ELSE Push(widgets,
                          ReplaceRange(TooltipWidget(m.visibleText, m.tooltipText,
                                                     from, to, FALSE),
                                       from, to)))

buildDecorations(text, c) == BuildWidgets(text, c, 0, <<>>)

RebuildOnDocOrViewport(u) == u.docChanged \/ u.viewportChanged
ShouldRebuild(u) == u.docChanged \/ u.viewportChanged \/ u.selectionSet

\* update(update: ViewUpdate): the decoration set after the host delivered
\* an update with flags u and the new state (newDoc, newCursor).
PluginUpdate(u, newDoc, newCursor) ==
    IF ShouldRebuild(u) THEN buildDecorations(newDoc, newCursor) ELSE decorations

\* History of one cursor round trip: "out" once the cursor has left the
\* match starting at start with the text unchanged since, "back" once it
\* has come back inside that match.
FirstLeft(text, c, newC) ==
    LET ms == Matcher(text)
        left == { k \in 1..Len(ms) :
                     /\ MatchStart(ms[k]) <= c /\ c <= MatchEnd(ms[k])
                     /\ ~(MatchStart(ms[k]) <= newC /\ newC <= MatchEnd(ms[k])) }
    IN IF left = {} THEN -1
       ELSE MatchStart(ms[CHOOSE k \in left : \A l \in left : k <= l])

BackInside(text, start, newC) ==
    LET ms == Matcher(text)
    IN \E k \in 1..Len(ms) :
          /\ MatchStart(ms[k]) = start
          /\ start <= newC /\ newC <= MatchEnd(ms[k])

TripAfterMove(newC) ==
    LET left == FirstLeft(doc, cursor, newC)
    IN IF trip.stage = "out"
       THEN IF BackInside(doc, trip.start, newC)
            THEN [trip EXCEPT !.stage = "back"] ELSE trip
       ELSE IF left >= 0
            THEN [stage |-> "out", start |-> left, text |-> doc]
            ELSE NoTrip

\* The view is constructed on the file the editor opens.
InitDocs ==
    { <<>>,
      <<"[", "a", "]", "{">>,
      <<"[", "a", "]", "{", "b", "}", "\n">> }

InitLive ==
    /\ doc \in InitDocs
    /\ cursor = 0
    /\ decorations = buildDecorations(doc, cursor)
    /\ nEdits = 0
    /\ trip = NoTrip
    /\ MatcherIdle
    /\ StaticIdle
    /\ TooltipIdle
    /\ EqIdle
    /\ RescanIdle
    /\ StylesIdle

\* The user types or pastes seg at the cursor; the cursor ends after it.
HostInsert ==
    /\ nEdits < MaxEdits
    /\ \E seg \in LiveSegs :
          LET u == [docChanged |-> TRUE, viewportChanged |-> FALSE, selectionSet |-> TRUE]
              newDoc == Slice(doc, 0, cursor) \o seg \o Slice(doc, cursor, Len(doc))
              newCursor == cursor + Len(seg)
          IN /\ doc' = newDoc
             /\ cursor' = newCursor
             /\ decorations' = PluginUpdate(u, newDoc, newCursor)
    /\ nEdits' = nEdits + 1
    /\ trip' = NoTrip
    /\ UNCHANGED <<matcherVars, staticVars, tooltipVars, eqVars, rescanVars, stylesVars>>

\* The user deletes the character before the cursor.
HostDeleteBack ==
    /\ nEdits < MaxEdits
    /\ cursor > 0
    /\ LET u == [docChanged |-> TRUE, viewportChanged |-> FALSE, selectionSet |-> TRUE]
           newDoc == Slice(doc, 0, cursor - 1) \o Slice(doc, cursor, Len(doc))
           newCursor == cursor - 1
       IN /\ doc' = newDoc
          /\ cursor' = newCursor
          /\ decorations' = PluginUpdate(u, newDoc, newCursor)
    /\ nEdits' = nEdits + 1
    /\ trip' = NoTrip
    /\ UNCHANGED <<matcherVars, staticVars, tooltipVars, eqVars, rescanVars, stylesVars>>

\* The user moves the cursor.
HostSelect ==
    /\ \E c \in 0..Len(doc) :
          LET u == [docChanged |-> FALSE, viewportChanged |-> FALSE, selectionSet |-> TRUE]
          IN /\ c # cursor
             /\ cursor' = c
             /\ decorations' = PluginUpdate(u, doc, c)
             /\ trip' = TripAfterMove(c)
    /\ UNCHANGED <<doc, nEdits>>
    /\ UNCHANGED <<matcherVars, staticVars, tooltipVars, eqVars, rescanVars, stylesVars>>

\* The editor scrolls or is resized.
HostViewport ==
    /\ LET u == [docChanged |-> FALSE, viewportChanged |-> TRUE, selectionSet |-> FALSE]
       IN decorations' = PluginUpdate(u, doc, cursor)
    /\ UNCHANGED <<doc, cursor, nEdits, trip>>
    /\ UNCHANGED <<matcherVars, staticVars, tooltipVars, eqVars, rescanVars, stylesVars>>

\* An update that changes neither text, viewport nor selection (focus).
HostOther ==
    /\ decorations' = PluginUpdate(NoUpdate, doc, cursor)
    /\ UNCHANGED <<doc, cursor, nEdits, trip>>
    /\ UNCHANGED <<matcherVars, staticVars, tooltipVars, eqVars, rescanVars, stylesVars>>

NextLive == HostInsert \/ HostDeleteBack \/ HostSelect \/ HostViewport \/ HostOther

SpecLive == InitLive /\ [][NextLive]_vars

----------------------------------------------------------------------------
(* Claims about the live decoration builder.                               *)

RangesAt(s) == { i \in 1..Len(decorations) : decorations[i].from = s }

(* C2: for every match [s, e) of the buffer and the cursor c, the match    *)
(* has no replacement range iff s <= c <= e; otherwise it has exactly one  *)
(* range, covering [s, e), whose widget carries the match's visible and    *)
(* tooltip text.                                                           *)
ActiveIffCursorInside ==
    \A k \in 1..Len(Matcher(doc)) :
        LET m == Matcher(doc)[k]
            s == MatchStart(m)
            e == MatchEnd(m)
        IN IF s <= cursor /\ cursor <= e
           THEN RangesAt(s) = {}
           ELSE /\ Cardinality(RangesAt(s)) = 1
                /\ \A i \in RangesAt(s) :
                      /\ decorations[i].to = e
                      /\ decorations[i].widget.visibleText = m.visibleText
                      /\ decorations[i].widget.tooltipText = m.tooltipText

\* An edited buffer with the cursor on the closing brace side of one match
\* (c = e, still active) while another match is collapsed.
WitnessActiveAndCollapsed ==
    /\ nEdits >= 1
    /\ Len(Matcher(doc)) >= 2
    /\ \E k \in 1..Len(Matcher(doc)) : cursor = MatchEnd(Matcher(doc)[k])
    /\ Len(decorations) >= 1

(* C3: whatever updates the host has delivered, the stored decoration set  *)
(* is the one buildDecorations computes from the current text and cursor.  *)
DecorationsFromScratch ==
    decorations = buildDecorations(doc, cursor)

\* After an edit and a cursor round trip, with one match active and one
\* collapsed.
WitnessRebuilt ==
    /\ nEdits >= 1
    /\ trip.stage = "back"
    /\ Len(decorations) >= 1
    /\ Len(decorations) < Len(Matcher(doc))

(* C6: once the cursor has left a match and come back inside it, the       *)
(* buffer text is what it was, the match has no replacement range again,   *)
(* and '[' visibleText ']{' tooltipText '}' built from the match's fields  *)
(* is the buffer substring at [startOffset, endOffset); while the cursor   *)
(* is outside, the one range standing for the match carries a widget       *)
(* whose fields give that same substring.                                  *)
RoundTripPreservesSource ==
    trip.stage \in {"out", "back"} =>
        /\ doc = trip.text
        /\ \E k \in 1..Len(Matcher(doc)) :
              LET m == Matcher(doc)[k]
              IN /\ MatchStart(m) = trip.start
                 /\ SourceForm(m.visibleText, m.tooltipText)
                        = Slice(doc, MatchStart(m), MatchEnd(m))
                 /\ trip.stage = "back" => RangesAt(trip.start) = {}
                 /\ trip.stage = "out" =>
                        /\ Cardinality(RangesAt(trip.start)) = 1
                        /\ \A i \in RangesAt(trip.start) :
                              SourceForm(decorations[i].widget.visibleText,
                                         decorations[i].widget.tooltipText)
                                  = Slice(doc, decorations[i].from, decorations[i].to)

\* The cursor has left a match with empty visible and tooltip text and is
\* back inside it.
WitnessRoundTripEmpty ==
    /\ trip.stage = "back"
    /\ \E k \in 1..Len(Matcher(doc)) :
          /\ MatchStart(Matcher(doc)[k]) = trip.start
          /\ Matcher(doc)[k].visibleText = <<>>
          /\ Matcher(doc)[k].tooltipText = <<>>

(* C7: the replacement ranges handed to Decoration.set are in ascending    *)
(* order of start offset and do not overlap.                               *)
RangesSortedNonOverlapping ==
    \A i \in 1..(Len(decorations) - 1) :
        /\ decorations[i].from < decorations[i + 1].from
        /\ decorations[i].to <= decorations[i + 1].from

\* Two collapsed matches in the stored set.
WitnessTwoRanges ==
    /\ Len(decorations) >= 2
    /\ decorations[1].to = decorations[2].from


\* The matches of the buffer that have no replacement range: the ones shown
\* as raw source.
ActiveMatches ==
    { k \in 1..Len(Matcher(doc)) : RangesAt(MatchStart(Matcher(doc)[k])) = {} }

RangesWithinOneLine ==
    \A i \in 1..Len(decorations) :
        \A p \in decorations[i].from..(decorations[i].to - 1) :
            CharAt(doc, p) # "\n"

(* C26: every widget in the stored decoration set has isActive = FALSE.    *)
NoActiveWidgetBuilt ==
    \A i \in 1..Len(decorations) : decorations[i].widget.isActive = FALSE

\* A rebuilt set with a widget next to a match the cursor is inside.
WitnessOnlyInactiveWidgets ==
    /\ nEdits >= 1
    /\ ActiveMatches # {}
    /\ Len(decorations) >= 1
    /\ \A i \in 1..Len(decorations) : ~decorations[i].widget.isActive

----------------------------------------------------------------------------
(* SpecTooltip: the mouseover and mouseout handlers of one annotation, of  *)
(* the post-processor's container ("static") and of TooltipWidget.toDOM    *)
(* ("live"; "liveActive" is a widget built with isActive, whose span has   *)
(* no tooltip element).  A pointer move from one region to another         *)
(* dispatches mouseout on the region left and then mouseover on the region *)
(* entered; both bubble to the container or span.  A callback handed to    *)
(* setTimeout runs at some later step; nothing ever clears one.            *)

MaxTimers == 3
MaxListeners == 2

\* Horizontal positions of the centre of the trigger, widths of the tooltip
\* (even, so that half a width is a whole number) and rectangles of
\* .workspace-split.mod-vertical.mod-root.
Centers == 0..6
Widths == {2, 6}
ContainerRects == { [left |-> 0, right |-> 4], [left |-> 2, right |-> 6] }

\* The alignment an inline style stands for: left-flush and right-flush pin
\* an edge of the tooltip to the same edge of the container, anything else
\* leaves the tooltip centred under the trigger.
Alignment(st) ==
    IF st.left = "0" THEN "left-flush"
    ELSE IF st.left = "auto" /\ st.right = "0" THEN "right-flush"
    ELSE "centered"

\* Where an alignment puts a tooltip that is laid out.
Layout(st, pg) ==
    CASE Alignment(st) = "left-flush" ->
             [left  |-> pg.mainContentLeft,
              right |-> pg.mainContentLeft + pg.width]
      [] Alignment(st) = "right-flush" ->
             [left  |-> pg.mainContentRight - pg.width,
              right |-> pg.mainContentRight]
      [] OTHER ->
             [left  |-> pg.center - (pg.width \div 2),
              right |-> pg.center + (pg.width \div 2)]

\* tooltip.getBoundingClientRect(): all zero for an element without a box.
BoundingClientRect(st, pg) ==
    IF pg.laidOut THEN Layout(st, pg) ELSE [left |-> 0, right |-> 0]

RectWidth(r) == r.right - r.left

\* The if / else if of the container's mouseover handler.
StaticAdjustRightFirst(st, tooltipRect, mainContentLeft, mainContentRight) ==
    IF tooltipRect.right > mainContentRight
    THEN [st EXCEPT !.left = "auto", !.right = "0", !.transform = "translateX(0)"]
    ELSE IF tooltipRect.left < mainContentLeft
    THEN [st EXCEPT !.left = "0", !.transform = "translateX(0)"]
    ELSE st

StaticAdjust(st, tooltipRect, mainContentLeft, mainContentRight) ==
    IF tooltipRect.left < mainContentLeft
    THEN [st EXCEPT !.left = "0", !.transform = "translateX(0)"]
    ELSE IF tooltipRect.right > mainContentRight
    THEN [st EXCEPT !.left = "auto", !.right = "0", !.transform = "translateX(0)"]
    ELSE st

\* container.addEventListener("mouseover", ...): the new tooltip.style.
StaticMouseoverNoWidthCheck(st, pg) ==
    IF ~pg.hasContainer THEN st
    ELSE StaticAdjust(st, BoundingClientRect(st, pg),
                      pg.mainContentLeft, pg.mainContentRight)

StaticMouseover(st, pg) ==
    IF RectWidth(BoundingClientRect(st, pg)) = 0 THEN st
    ELSE IF ~pg.hasContainer THEN st
    ELSE StaticAdjust(st, BoundingClientRect(st, pg),
                      pg.mainContentLeft, pg.mainContentRight)

\* The if / else if of the span's mouseover handler.
LiveAdjust(st, tooltipRect, mainContentLeft, mainContentRight) ==
    IF tooltipRect.left < mainContentLeft
    THEN [st EXCEPT !.left = "0", !.transform = "translateX(0)"]
    ELSE IF tooltipRect.right > mainContentRight
    THEN [st EXCEPT !.left = "auto", !.right = "0", !.transform = "translateX(0)"]
    ELSE st

\* span.addEventListener("mouseover", ...): the new tooltip.style and the
\* number of mouseout listeners on the tooltip; the handler adds one each
\* time it gets past its three early returns.
LiveMouseover(hasTooltip, st, listeners, pg) ==
    IF ~hasTooltip THEN [style |-> st, listeners |-> listeners]
    ELSE IF RectWidth(BoundingClientRect(st, pg)) = 0
    THEN [style |-> st, listeners |-> listeners]
    ELSE IF ~pg.hasContainer THEN [style |-> st, listeners |-> listeners]
    ELSE [style     |-> LiveAdjust(st, BoundingClientRect(st, pg),
                                   pg.mainContentLeft, pg.mainContentRight),
          listeners |-> listeners + 1]

\* A variant of the callback that clears the forced flags only.
ResetVisibilityOnly(st) == [st EXCEPT !.visibility = "", !.opacity = ""]

\* The callback handed to setTimeout(..., 200).
ResetStyles(st) ==
    [st EXCEPT !.left = "50%", !.right = "auto", !.transform = "translateX(-50%)",
               !.visibility = "", !.opacity = ""]

\* A variant that resets at once instead of handing the reset to a timer.
HideAndResetNow(h) == [style |-> ResetStyles(h.style), timers |-> h.timers]

\* The tail of every mouseout handler: hide now, reset in a timer.  h is the
\* tooltip.style and the number of pending timers.
HideAndSchedule(h) ==
    [style  |-> [h.style EXCEPT !.visibility = "hidden", !.opacity = "0"],
     timers |-> h.timers + 1]

\* event.relatedTarget is "tooltip" or "trigger" for an element inside the
\* tooltip or inside the rest of the annotation, "null" for anything else.
\* container.addEventListener("mouseout", ...)
StaticMouseout(h, relatedTarget) ==
    IF relatedTarget # "null" /\ relatedTarget = "tooltip" THEN h
    ELSE HideAndSchedule(h)

\* tooltip.addEventListener("mouseout", ...): span.contains(relatedTarget)
\* holds for the tooltip as well as for the visible text.
LiveTooltipMouseout(h, relatedTarget) ==
    IF relatedTarget # "null" /\ relatedTarget \in {"trigger", "tooltip"} THEN h
    ELSE HideAndSchedule(h)

\* span.addEventListener("mouseout", ...)
LiveSpanMouseout(hasTooltip, h, relatedTarget) ==
    IF ~hasTooltip THEN h
    ELSE IF relatedTarget # "null" /\ relatedTarget = "tooltip" THEN h
    ELSE HideAndSchedule(h)

\* The n listeners on the tooltip element, in the order they were added.
RECURSIVE RunTooltipListeners(_, _, _)
RunTooltipListeners(n, h, relatedTarget) ==
    IF n = 0 THEN h
    ELSE RunTooltipListeners(n - 1, LiveTooltipMouseout(h, relatedTarget),
                             relatedTarget)

\* One mouseout event with the given target: the listeners of the tooltip
\* run when the target is inside it, then the event bubbles to the span or
\* container.
DispatchMouseout(kind, target, relatedTarget, h, listeners) ==
    IF kind = "static" THEN StaticMouseout(h, relatedTarget)
    ELSE LiveSpanMouseout(kind = "live",
                          IF target = "tooltip"
                          THEN RunTooltipListeners(listeners, h, relatedTarget)
                          ELSE h,
                          relatedTarget)

RelatedTarget(to) == IF to = "outside" THEN "null" ELSE to

\* The tooltip can be under the pointer only when it has a box and is not
\* forced hidden.
CanHoverTooltip ==
    /\ surface # "liveActive"
    /\ page.laidOut
    /\ tooltipStyle.visibility # "hidden"

\* Room for the listener the pending mouseover may add.
ListenerRoom ==
    tooltipListeners < MaxListeners
        \/ LiveMouseover(surface = "live", tooltipStyle, 0, page).listeners = 0
        \/ surface = "static"

InitTooltip ==
    /\ surface \in {"static", "live", "liveActive"}
    /\ pointer = "outside"
    /\ pendingOver = FALSE
    /\ tooltipStyle = NoInlineStyle
    /\ timers = 0
    /\ tooltipListeners = 0
    /\ \E c \in Centers, w \in Widths, rect \in ContainerRects,
          lo \in BOOLEAN, hc \in BOOLEAN :
          page = [center |-> c, width |-> w, laidOut |-> lo, hasContainer |-> hc,
                  mainContentLeft |-> rect.left, mainContentRight |-> rect.right]
    /\ MatcherIdle
    /\ StaticIdle
    /\ LiveIdle
    /\ EqIdle
    /\ RescanIdle
    /\ StylesIdle

\* The pointer comes onto the visible text from outside the annotation.
PointerEnter ==
    /\ ~pendingOver
    /\ pointer = "outside"
    /\ ListenerRoom
    /\ pointer' = "trigger"
    /\ pendingOver' = TRUE
    /\ UNCHANGED <<surface, tooltipStyle, timers, tooltipListeners, page>>
    /\ UNCHANGED <<matcherVars, staticVars, liveVars, eqVars, rescanVars, stylesVars>>

\* The pointer moves between the visible text and the tooltip: mouseout on
\* the region left, with the region entered as relatedTarget.
PointerCross ==
    /\ ~pendingOver
    /\ pointer \in {"trigger", "tooltip"}
    /\ CanHoverTooltip
    /\ ListenerRoom
    /\ LET to == IF pointer = "trigger" THEN "tooltip" ELSE "trigger"
           h  == DispatchMouseout(surface, pointer, RelatedTarget(to),
                                  [style |-> tooltipStyle, timers |-> timers],
                                  tooltipListeners)
       IN /\ h.timers <= MaxTimers
          /\ pointer' = to
          /\ tooltipStyle' = h.style
          /\ timers' = h.timers
    /\ pendingOver' = TRUE
    /\ UNCHANGED <<surface, tooltipListeners, page>>
    /\ UNCHANGED <<matcherVars, staticVars, liveVars, eqVars, rescanVars, stylesVars>>

\* The pointer leaves the annotation: mouseout with a relatedTarget outside.
PointerLeave ==
    /\ ~pendingOver
    /\ pointer \in {"trigger", "tooltip"}
    /\ LET h == DispatchMouseout(surface, pointer, RelatedTarget("outside"),
                                 [style |-> tooltipStyle, timers |-> timers],
                                 tooltipListeners)
       IN /\ h.timers <= MaxTimers
          /\ tooltipStyle' = h.style
          /\ timers' = h.timers
    /\ pointer' = "outside"
    /\ UNCHANGED <<surface, pendingOver, tooltipListeners, page>>
    /\ UNCHANGED <<matcherVars, staticVars, liveVars, eqVars, rescanVars, stylesVars>>

\* The mouseover of the region just entered reaches the container or span.
DispatchMouseover ==
    /\ pendingOver
    /\ pendingOver' = FALSE
    /\ IF surface = "static"
       THEN /\ tooltipStyle' = StaticMouseover(tooltipStyle, page)
            /\ UNCHANGED tooltipListeners
       ELSE LET r == LiveMouseover(surface = "live", tooltipStyle,
                                   tooltipListeners, page)
            IN /\ tooltipStyle' = r.style
               /\ tooltipListeners' = r.listeners
    /\ UNCHANGED <<surface, pointer, timers, page>>
    /\ UNCHANGED <<matcherVars, staticVars, liveVars, eqVars, rescanVars, stylesVars>>

\* One pending setTimeout callback runs.
TimerFires ==
    /\ ~pendingOver
    /\ timers > 0
    /\ timers' = timers - 1
    /\ tooltipStyle' = ResetStyles(tooltipStyle)
    /\ UNCHANGED <<surface, pointer, pendingOver, tooltipListeners, page>>
    /\ UNCHANGED <<matcherVars, staticVars, liveVars, eqVars, rescanVars, stylesVars>>

NextTooltip ==
    \/ PointerEnter
    \/ PointerCross
    \/ PointerLeave
    \/ DispatchMouseover
    \/ TimerFires

SpecTooltip == InitTooltip /\ [][NextTooltip]_vars

(* Claims about SpecTooltip.                                               *)

\* The step in which the mouseover handler runs.
MouseoverStep == pendingOver /\ ~pendingOver'

\* The handler gets past its early returns.
Measured ==
    /\ surface # "liveActive"
    /\ page.laidOut
    /\ page.width # 0
    /\ page.hasContainer

LeftFlushStyle(st) == [st EXCEPT !.left = "0", !.transform = "translateX(0)"]

RightFlushStyle(st) ==
    [st EXCEPT !.left = "auto", !.right = "0", !.transform = "translateX(0)"]

\* The rectangle of a tooltip centred under the trigger.
CenteredRect ==
    [left  |-> page.center - (page.width \div 2),
     right |-> page.center + (page.width \div 2)]

(* C15: on a mouseover with a tooltip of non-zero width and an existing    *)
(* container, a tooltip measured left of the container's left edge gets    *)
(* left 0 and transform translateX(0); otherwise one measured right of the *)
(* container's right edge gets left auto, right 0 and translateX(0);       *)
(* otherwise no style changes.  The left rule wins when both overflow.     *)
AdjustmentRule ==
    [][(MouseoverStep /\ Measured) =>
          LET r == BoundingClientRect(tooltipStyle, page)
          IN IF r.left < page.mainContentLeft
             THEN tooltipStyle' = LeftFlushStyle(tooltipStyle)
             ELSE IF r.right > page.mainContentRight
             THEN tooltipStyle' = RightFlushStyle(tooltipStyle)
             ELSE tooltipStyle' = tooltipStyle]_vars

\* A centred tooltip that overflowed on both sides has been given the
\* left-flush style by the first mouseover.
WitnessLeftRuleWins ==
    /\ pointer = "trigger"
    /\ ~pendingOver
    /\ Measured
    /\ CenteredRect.left < page.mainContentLeft
    /\ CenteredRect.right > page.mainContentRight
    /\ tooltipStyle = LeftFlushStyle(NoInlineStyle)

(* C16: after a handled mouseover the tooltip lies within the container: a *)
(* tooltip measured left of the container's left edge ends with its left   *)
(* edge at the container's left edge and translateX(0), one measured right *)
(* of the right edge ends with its right edge at the container's right     *)
(* edge, whatever the trigger position, width and container rectangle.     *)
TooltipNeverOverflows ==
    [][(MouseoverStep /\ Measured) =>
          LET before == BoundingClientRect(tooltipStyle, page)
              after  == BoundingClientRect(tooltipStyle', page)
          IN /\ after.left >= page.mainContentLeft
             /\ after.right <= page.mainContentRight
             /\ before.left < page.mainContentLeft =>
                    /\ after.left = page.mainContentLeft
                    /\ tooltipStyle'.transform = "translateX(0)"
             /\ before.right > page.mainContentRight =>
                    /\ after.right = page.mainContentRight
                    /\ tooltipStyle'.transform = "translateX(0)"]_vars

(* C17: a mouseout from the trigger towards the tooltip, and one from the  *)
(* tooltip towards the trigger, leaves visibility and opacity as they were *)
(* and adds no timer, once every handler the event reaches has run.        *)
StillHoveringNotHidden ==
    [][(/\ pointer \in {"trigger", "tooltip"}
        /\ pointer' \in {"trigger", "tooltip"}
        /\ pointer' # pointer) =>
          /\ tooltipStyle'.visibility = tooltipStyle.visibility
          /\ tooltipStyle'.opacity = tooltipStyle.opacity
          /\ timers' = timers]_vars

(* C18: a mouseout towards the outside of an annotation with a tooltip     *)
(* sets visibility hidden and opacity 0 in that step, schedules a callback *)
(* and leaves left, right and transform alone; left 50%, right auto,       *)
(* translateX(-50%) and the clearing of visibility and opacity are only    *)
(* ever written by a step in which a scheduled callback runs.              *)
HideThenReset ==
    [][/\ (/\ pointer \in {"trigger", "tooltip"}
           /\ pointer' = "outside"
           /\ surface # "liveActive") =>
              /\ tooltipStyle'.visibility = "hidden"
              /\ tooltipStyle'.opacity = "0"
              /\ tooltipStyle'.left = tooltipStyle.left
              /\ tooltipStyle'.right = tooltipStyle.right
              /\ tooltipStyle'.transform = tooltipStyle.transform
              /\ timers' > timers
       /\ (\/ tooltipStyle'.left = "50%" /\ tooltipStyle.left # "50%"
           \/ tooltipStyle'.right = "auto" /\ tooltipStyle.right # "auto"
           \/ tooltipStyle'.transform = "translateX(-50%)"
                  /\ tooltipStyle.transform # "translateX(-50%)"
           \/ tooltipStyle'.visibility = "" /\ tooltipStyle.visibility # ""
           \/ tooltipStyle'.opacity = "" /\ tooltipStyle.opacity # "") =>
              /\ timers > 0
              /\ timers' = timers - 1
              /\ tooltipStyle' = ResetStyles(tooltipStyle)]_vars

\* The pointer has left a left-flush tooltip: it is hidden, still
\* left-flush, and its reset is pending.
WitnessHiddenBeforeReset ==
    /\ pointer = "outside"
    /\ timers >= 1
    /\ tooltipStyle.visibility = "hidden"
    /\ tooltipStyle.opacity = "0"
    /\ tooltipStyle.left = "0"
    /\ tooltipStyle.transform = "translateX(0)"

(* C19: a callback scheduled by an earlier mouseout never changes the      *)
(* tooltip's style while the pointer is on the annotation again: after     *)
(* leave, enter, callback the alignment of the second enter still holds.   *)
ResetDebounced ==
    [][(timers' < timers /\ pointer \in {"trigger", "tooltip"}) =>
          tooltipStyle' = tooltipStyle]_vars

(* C20: a mouseover with a tooltip of width zero, without the container    *)
(* element, or on a live widget without tooltip element changes no style   *)
(* property, adds no listener and no timer.                                *)
MeasurementUnavailableNoChange ==
    [][(MouseoverStep /\ ~Measured) =>
          /\ tooltipStyle' = tooltipStyle
          /\ tooltipListeners' = tooltipListeners
          /\ timers' = timers]_vars

\* The pointer is on the trigger of a laid-out tooltip that would overflow
\* on the left, the container element is missing, and the style is as it was.
WitnessNoContainer ==
    /\ pointer = "trigger"
    /\ ~pendingOver
    /\ surface # "liveActive"
    /\ page.laidOut
    /\ ~page.hasContainer
    /\ CenteredRect.left < page.mainContentLeft
    /\ tooltipStyle = NoInlineStyle


\* The inline style the setTimeout callback leaves behind.
DefaultOverrides ==
    [left |-> "50%", right |-> "auto", transform |-> "translateX(-50%)",
     visibility |-> "", opacity |-> ""]

(* C27: a mouseout towards the outside of an annotation with a tooltip     *)
(* leaves a callback pending and the inline style touched, a touched style *)
(* stays touched, and whenever the pointer is outside, no callback is      *)
(* pending and the style has been touched, the style is left 50%, right    *)
(* auto, translateX(-50%) with visibility and opacity cleared.             *)
QuiescentTooltipIsDefault ==
    [][/\ (/\ pointer \in {"trigger", "tooltip"}
           /\ pointer' = "outside"
           /\ surface # "liveActive") =>
              /\ timers' > 0
              /\ tooltipStyle' # NoInlineStyle
       /\ tooltipStyle # NoInlineStyle => tooltipStyle' # NoInlineStyle
       /\ (/\ pointer' = "outside"
           /\ ~pendingOver'
           /\ timers' = 0
           /\ tooltipStyle' # NoInlineStyle) =>
              tooltipStyle' = DefaultOverrides]_vars

\* A tooltip that was repositioned while hovered is at rest with the
\* default overrides.
WitnessQuiescent ==
    /\ pointer = "outside"
    /\ ~pendingOver
    /\ timers = 0
    /\ Measured
    /\ CenteredRect.right > page.mainContentRight
    /\ CenteredRect.left >= page.mainContentLeft
    /\ tooltipStyle = DefaultOverrides

(* C28: in the live widget one mouseout event schedules at most one        *)
(* callback, and the tooltip element never has more than one mouseout      *)
(* listener, however many mouseover events came before.                    *)
OneCallbackPerLeave ==
    [][surface = "live" =>
          /\ timers' <= timers + 1
          /\ tooltipListeners' <= 1]_vars

----------------------------------------------------------------------------
(* SpecEq: TooltipWidget.eq called on two widget instances, in both        *)
(* directions and on a widget and itself.                                  *)

EqTexts == { <<>>, <<"a">> }
EqFroms == {0, 1}
EqTos == {4, 5}
EqViews == {"view1", "view2"}

\* A variant that compares the instances as wholes.
EqSameInstance(this, other) == other = this

\* eq(other: TooltipWidget): boolean
Eq(this, other) ==
    /\ other.visibleText = this.visibleText
    /\ other.tooltipText = this.tooltipText
    /\ other.from = this.from
    /\ other.to = this.to
    /\ other.isActive = this.isActive

InitEq ==
    /\ \E v \in EqTexts, t \in EqTexts, f \in EqFroms, e \in EqTos,
          w \in EqViews, act \in BOOLEAN :
          widgetA = WidgetInstance(v, t, f, e, w, act)
    /\ \E v \in EqTexts, t \in EqTexts, f \in EqFroms, e \in EqTos,
          w \in EqViews, act \in BOOLEAN :
          widgetB = WidgetInstance(v, t, f, e, w, act)
    /\ eqResult = {}
    /\ MatcherIdle
    /\ StaticIdle
    /\ LiveIdle
    /\ TooltipIdle
    /\ RescanIdle
    /\ StylesIdle

CallAEqB ==
    /\ \A r \in eqResult : r.call # "a.eq(b)"
    /\ eqResult' = eqResult \cup {[call |-> "a.eq(b)", value |-> Eq(widgetA, widgetB)]}
    /\ UNCHANGED <<widgetA, widgetB>>
    /\ UNCHANGED <<matcherVars, staticVars, liveVars, tooltipVars, rescanVars, stylesVars>>

CallBEqA ==
    /\ \A r \in eqResult : r.call # "b.eq(a)"
    /\ eqResult' = eqResult \cup {[call |-> "b.eq(a)", value |-> Eq(widgetB, widgetA)]}
    /\ UNCHANGED <<widgetA, widgetB>>
    /\ UNCHANGED <<matcherVars, staticVars, liveVars, tooltipVars, rescanVars, stylesVars>>

CallAEqA ==
    /\ \A r \in eqResult : r.call # "a.eq(a)"
    /\ eqResult' = eqResult \cup {[call |-> "a.eq(a)", value |-> Eq(widgetA, widgetA)]}
    /\ UNCHANGED <<widgetA, widgetB>>
    /\ UNCHANGED <<matcherVars, staticVars, liveVars, tooltipVars, rescanVars, stylesVars>>

NextEq ==
    \/ CallAEqB
    \/ CallBEqA
    \/ CallAEqA

SpecEq == InitEq /\ [][NextEq]_vars

\* The five fields the two widgets are compared on.
FiveFields(w) == <<w.visibleText, w.tooltipText, w.from, w.to, w.isActive>>

(* C21: a.eq(b) is true exactly when visibleText, tooltipText, from, to    *)
(* and isActive of a and b are equal, whatever their views; a.eq(a) is     *)
(* true and a.eq(b) = b.eq(a).                                             *)
WidgetEquality ==
    \A r \in eqResult :
        /\ r.call \in {"a.eq(b)", "b.eq(a)"} =>
               (r.value <=> FiveFields(widgetA) = FiveFields(widgetB))
        /\ r.call = "a.eq(a)" => r.value
        /\ \A q \in eqResult :
               (r.call = "a.eq(b)" /\ q.call = "b.eq(a)") => r.value = q.value

\* Two widgets with different views and equal five fields were compared in
\* both directions and found equal.
WitnessEqIgnoresView ==
    /\ widgetA.view # widgetB.view
    /\ [call |-> "a.eq(b)", value |-> TRUE] \in eqResult
    /\ [call |-> "b.eq(a)", value |-> TRUE] \in eqResult

----------------------------------------------------------------------------
(* SpecRescan: the same string scanned several times.  Every run of the    *)
(* post-processor callback and every run of buildDecorations evaluates its *)
(* regex literal anew and loops until exec returns null.                   *)

MaxRescanSegs == 3
MaxPasses == 3

RescanTexts == { Flatten(ss) : ss \in SeqsUpTo(Segs, MaxRescanSegs) }

\* A scan that takes up where the first match of the scan before it ended.
LastIndexLeftOver == IF results = <<>> THEN 0 ELSE MatchEnd(results[1])

\* regex.lastIndex of a regex object just made from the literal.
NewRegexLastIndex == 0

\* regex.exec of the builder that runs the current scan.
BuilderExec(b, text, lastIndex) ==
    IF b = "static" THEN StaticRegexExec(text, lastIndex)
    ELSE RegexExec(text, lastIndex)

InitRescan ==
    /\ content \in RescanTexts
    /\ reLastIndex = 0
    /\ results = <<>>
    /\ scanning = FALSE
    /\ pass = 0
    /\ firstResults = <<>>
    /\ builder \in {"static", "live"}
    /\ StaticIdle
    /\ LiveIdle
    /\ TooltipIdle
    /\ EqIdle
    /\ StylesIdle

\* A builder starts a scan of the string: const regex = /.../g; let match.
NewPass ==
    /\ ~scanning
    /\ pass < MaxPasses
    /\ \E b \in {"static", "live"} : builder' = b
    /\ reLastIndex' = NewRegexLastIndex
    /\ results' = <<>>
    /\ scanning' = TRUE
    /\ UNCHANGED <<content, pass, firstResults>>
    /\ UNCHANGED <<staticVars, liveVars, tooltipVars, eqVars, stylesVars>>

\* One iteration of the while loop of the current scan.
PassExecMatch ==
    /\ scanning
    /\ BuilderExec(builder, content, reLastIndex) # Null
    /\ results' = Append(results, BuilderExec(builder, content, reLastIndex))
    /\ reLastIndex' = LastIndexAfter(BuilderExec(builder, content, reLastIndex))
    /\ UNCHANGED <<content, scanning, pass, firstResults, builder>>
    /\ UNCHANGED <<staticVars, liveVars, tooltipVars, eqVars, stylesVars>>

\* exec returns null and the scan is over.
PassExecNull ==
    /\ scanning
    /\ BuilderExec(builder, content, reLastIndex) = Null
    /\ reLastIndex' = LastIndexAfter(Null)
    /\ scanning' = FALSE
    /\ pass' = pass + 1
    /\ firstResults' = IF pass = 0 THEN results ELSE firstResults
    /\ UNCHANGED <<content, results, builder>>
    /\ UNCHANGED <<staticVars, liveVars, tooltipVars, eqVars, stylesVars>>

NextRescan ==
    \/ NewPass
    \/ PassExecMatch
    \/ PassExecNull

SpecRescan == InitRescan /\ [][NextRescan]_vars

(* C22: every finished scan of a string gives the match list of the first  *)
(* finished scan of it, whichever builder ran either, and every scan       *)
(* starts at offset 0.                                                     *)
MatcherDeterministic ==
    /\ (~scanning /\ pass >= 1) => results = firstResults
    /\ (scanning /\ results = <<>>) => reLastIndex = 0

\* A third scan of a string with two matches has finished.
WitnessRescanned ==
    /\ ~scanning
    /\ pass >= 3
    /\ Len(results) >= 2
    /\ Len(firstResults) >= 2

----------------------------------------------------------------------------
(* SpecStyles: the style element the plugin injects into document.head.    *)
(* The handlers of the settings tab assign a setting, await saveSettings   *)
(* and then call updateStyles; the host calls onunload.                    *)

StyleId == "hover-reveal-custom-styles"

\* The values a colour setting is given in the model.
Colors == {"#000000", "#ffffff"}

SettingNames ==
    {"tooltipTextColor", "tooltipBackgroundColor", "tooltipBorderColor",
     "boldTextColor"}

\* The template literal of updateStyles: which setting each declaration
\* is given.
StyleText(s) ==
    [tooltipColor            |-> s.tooltipTextColor,
     tooltipBackgroundColor  |-> s.tooltipBackgroundColor,
     tooltipBorderColor      |-> s.tooltipBorderColor,
     afterBorderTopColor     |-> s.tooltipBackgroundColor,
     hoverRevealColor        |-> s.boldTextColor]

StyleElement(id, textContent) == [id |-> id, textContent |-> textContent]

\* A style element of the host page that is not the plugin's.
HostStyle == StyleElement("host-styles", "host")

\* The positions in head of the elements with the given id.
IndicesById(h, id) == { i \in 1..Len(h) : h[i].id = id }

Min(S) == CHOOSE x \in S : \A y \in S : x <= y

RemoveAt(h, i) == SubSeq(h, 1, i - 1) \o SubSeq(h, i + 1, Len(h))

\* A variant that leaves the old element in place.
RemoveOldStyleNever(h) == h

\* oldStyle = document.getElementById(id); if (oldStyle) oldStyle.remove():
\* getElementById returns the first element with the id.
RemoveOldStyle(h) ==
    IF IndicesById(h, StyleId) = {} THEN h
    ELSE RemoveAt(h, Min(IndicesById(h, StyleId)))

InitStyles ==
    /\ head \in { <<>>, <<HostStyle>> }
    /\ settings = DEFAULT_SETTINGS
    /\ lastCall = "none"
    /\ MatcherIdle
    /\ StaticIdle
    /\ LiveIdle
    /\ TooltipIdle
    /\ EqIdle
    /\ RescanIdle

\* An onChange handler or the reset button assigns a setting.
SetSetting ==
    /\ \E name \in SettingNames :
          \E value \in Colors \cup {DEFAULT_SETTINGS[name]} :
              /\ settings[name] # value
              /\ settings' = [settings EXCEPT ![name] = value]
    /\ lastCall' = "set"
    /\ UNCHANGED head
    /\ UNCHANGED <<matcherVars, staticVars, liveVars, tooltipVars, eqVars, rescanVars>>

\* updateStyles()
UpdateStyles ==
    /\ head' = Append(RemoveOldStyle(head),
                      StyleElement(StyleId, StyleText(settings)))
    /\ lastCall' = "updateStyles"
    /\ UNCHANGED settings
    /\ UNCHANGED <<matcherVars, staticVars, liveVars, tooltipVars, eqVars, rescanVars>>

\* onunload()
Onunload ==
    /\ head' = RemoveOldStyle(head)
    /\ lastCall' = "onunload"
    /\ UNCHANGED settings
    /\ UNCHANGED <<matcherVars, staticVars, liveVars, tooltipVars, eqVars, rescanVars>>

NextStyles ==
    \/ SetSetting
    \/ UpdateStyles
    \/ Onunload

SpecStyles == InitStyles /\ [][NextStyles]_vars

(* C23: the document never holds more than one element with the id         *)
(* hover-reveal-custom-styles; right after updateStyles it holds exactly   *)
(* one, whose content is built from the four current settings; right after *)
(* onunload it holds none.                                                 *)
StylesheetLifecycle ==
    /\ Cardinality(IndicesById(head, StyleId)) <= 1
    /\ lastCall = "updateStyles" =>
           /\ Cardinality(IndicesById(head, StyleId)) = 1
           /\ \A i \in IndicesById(head, StyleId) :
                  /\ head[i].textContent.tooltipColor = settings.tooltipTextColor
                  /\ head[i].textContent.tooltipBackgroundColor
                         = settings.tooltipBackgroundColor
                  /\ head[i].textContent.tooltipBorderColor
                         = settings.tooltipBorderColor
                  /\ head[i].textContent.afterBorderTopColor
                         = settings.tooltipBackgroundColor
                  /\ head[i].textContent.hoverRevealColor = settings.boldTextColor
    /\ lastCall = "onunload" => IndicesById(head, StyleId) = {}

\* updateStyles has just replaced a style element made from other settings:
\* every setting differs from its default and the one element shows it.
WitnessStyleReplaced ==
    /\ lastCall = "updateStyles"
    /\ \A name \in SettingNames : settings[name] # DEFAULT_SETTINGS[name]
    /\ Len(head) = 2
    /\ head[2] = StyleElement(StyleId, StyleText(settings))

====
